---- MODULE Spec2Model ----
(***************************************************************************)
(* Vendor reconciliation pipeline of New.py: validate_vendor_code,         *)
(* validate_vendor_name and validate_vendor_bank_account over three        *)
(* pandas DataFrames (procurement, SAP vendor master, invoices).           *)
(*                                                                         *)
(* A DataFrame is a record [columns, rows]: the set of its column names    *)
(* and the sequence of its rows in index order.  A row is a record with    *)
(* its index label (idx) and one field per column the pipeline can ever    *)
(* hold; a field of a column the frame does not have yet is NaN (False     *)
(* for the two boolean columns).  A pandas Series used as a lookup is a    *)
(* sequence of [key, val] entries.                                         *)
(***************************************************************************)
EXTENDS Naturals, Sequences, FiniteSets, TLC

VARIABLES df_proc, df_sap, df_inv, df_inv_corrected, last

vars == <<df_proc, df_sap, df_inv, df_inv_corrected, last>>

(***************************************************************************)
(* Bounds of the explored inputs.                                          *)
(***************************************************************************)
MaxProc == 2
MaxInv == 2

(***************************************************************************)
(* pandas value semantics                                                  *)
(***************************************************************************)
\* the missing value (NaN / None) of an object column
NaN == "NaN"

isna(v) == v = NaN

notna(v) == v # NaN

\* elementwise != of two object Series: a missing value on either side
\* compares unequal, also to another missing value
ne(a, b) == isna(a) \/ isna(b) \/ a # b

\* astype(str) of one value
astype_str(v) == IF isna(v) THEN "nan" ELSE v

\* Series.unique(): distinct values in order of first occurrence
RECURSIVE unique(_)
unique(s) ==
    IF s = <<>> THEN <<>>
    ELSE LET front == unique(SubSeq(s, 1, Len(s) - 1))
             x == s[Len(s)]
         IN IF \E i \in DOMAIN front : front[i] = x THEN front
            ELSE Append(front, x)

\* frame.set_index(key_col)[val_col]: the lookup Series, one entry per row
set_index(frame, key_col, val_col) ==
    [i \in DOMAIN frame.rows |->
        [key |-> frame.rows[i][key_col], val |-> frame.rows[i][val_col]]]

\* Index.is_unique of a lookup Series
is_unique(series) ==
    \A i, j \in DOMAIN series : series[i].key = series[j].key => i = j

\* one value of Series.map(series): the entry under the key, NaN without one
\* (only evaluated for a unique index: get_indexer raises otherwise)
map_value(series, k) ==
    IF \E i \in DOMAIN series : series[i].key = k
    THEN series[CHOOSE i \in DOMAIN series : series[i].key = k].val
    ELSE NaN

\* Series.isin(series.index) for one value
isin(series, k) == \E i \in DOMAIN series : series[i].key = k

\* the mask left out: every row selected
h_mask_all(frame) == [i \in DOMAIN frame.rows |-> TRUE]

\* df[id_col] == "H"
h_mask(frame) == [i \in DOMAIN frame.rows |-> frame.rows[i].id_column = "H"]

\* subsequence of the rows selected by a boolean mask, in order
RECURSIVE select(_, _)
select(rows, mask) ==
    IF rows = <<>> THEN <<>>
    ELSE LET n == Len(rows)
             front == select(SubSeq(rows, 1, n - 1), SubSeq(mask, 1, n - 1))
         IN IF mask[n] THEN Append(front, rows[n]) ELSE front

\* the frame first cut down to the masked rows (df = df[mask]), then assigned
loc_assign_filtered(frame, mask, col, values) ==
    [columns |-> frame.columns \cup {col},
     rows |-> select([i \in DOMAIN frame.rows |->
                         [frame.rows[i] EXCEPT ![col] = values[i]]], mask)]

\* df.loc[mask, col] = values: the column is created (NaN everywhere) when the
\* frame lacks it, the masked rows take their value, the others keep theirs
loc_assign(frame, mask, col, values) ==
    [columns |-> frame.columns \cup {col},
     rows |-> [i \in DOMAIN frame.rows |->
                  IF mask[i] THEN [frame.rows[i] EXCEPT ![col] = values[i]]
                  ELSE frame.rows[i]]]

(***************************************************************************)
(* validate_vendor_code                                                    *)
(***************************************************************************)
\* lines 26-36: the lookups and the two mapped columns, H rows only
enrich(proc, sap) ==
    LET name_map == set_index(sap, "vendor_code", "vendor_name")
        bank_map == IF "bank_account" \in sap.columns
                    THEN set_index(sap, "vendor_code", "bank_account")
                    ELSE <<>>
        mask == h_mask(proc)
        p1 == loc_assign(proc, mask, "vendor_name_sap",
                 [i \in DOMAIN proc.rows |->
                     map_value(name_map, proc.rows[i].vendor_code)])
    IN IF bank_map # <<>>
       THEN loc_assign(p1, mask, "bank_account_sap",
                [i \in DOMAIN proc.rows |->
                    map_value(bank_map, proc.rows[i].vendor_code)])
       ELSE p1

\* line 39
missing_mask(proc) ==
    [i \in DOMAIN proc.rows |->
        h_mask(proc)[i] /\ isna(proc.rows[i].vendor_name_sap)]

\* line 41
missing_codes(proc) ==
    LET sel == select(proc.rows, missing_mask(proc))
    IN unique([i \in DOMAIN sel |-> astype_str(sel[i].vendor_code)])

\* a re-run that adds the columns with DataFrame.insert, which refuses a
\* column the frame already has
validate_vendor_code_insert(proc, sap) ==
    IF "vendor_name_sap" \in proc.columns
    THEN [raised |-> "ValueError", codes |-> <<>>, df_proc |-> proc]
    ELSE LET p == enrich(proc, sap)
         IN IF \E i \in DOMAIN p.rows : missing_mask(p)[i]
            THEN [raised |-> "ValueError", codes |-> missing_codes(p),
                  df_proc |-> p]
            ELSE [raised |-> "none", codes |-> <<>>, df_proc |-> p]

\* the call: what it raises, the codes its error names, and df_proc (mutated
\* in place, also when it raises)
validate_vendor_code(proc, sap) ==
    IF ~is_unique(set_index(sap, "vendor_code", "vendor_name"))
    THEN [raised |-> "InvalidIndexError", codes |-> <<>>, df_proc |-> proc]
    ELSE LET p == enrich(proc, sap)
         IN IF \E i \in DOMAIN p.rows : missing_mask(p)[i]
            THEN [raised |-> "ValueError", codes |-> missing_codes(p),
                  df_proc |-> p]
            ELSE [raised |-> "none", codes |-> <<>>, df_proc |-> p]

(***************************************************************************)
(* validate_vendor_name                                                    *)
(***************************************************************************)
\* line 68 with the invoice names written over the SAP names
attach_invoice_name_sap(proc, inv_name_map) ==
    loc_assign(proc, h_mask(proc), "vendor_name_sap",
        [i \in DOMAIN proc.rows |->
            map_value(inv_name_map, proc.rows[i].invoice_number)])

\* lines 65-68: the invoice's vendor name onto the H rows
attach_invoice_name(proc, inv_name_map) ==
    loc_assign(proc, h_mask(proc), "vendor_name_inv",
        [i \in DOMAIN proc.rows |->
            map_value(inv_name_map, proc.rows[i].invoice_number)])

\* lines 71-73 without the notna() test
mismatch_mask_nona(proc) ==
    [i \in DOMAIN proc.rows |->
        /\ h_mask(proc)[i]
        /\ ne(proc.rows[i].vendor_name_inv, proc.rows[i].vendor_name_sap)]

\* lines 71-73
mismatch_mask(proc) ==
    [i \in DOMAIN proc.rows |->
        /\ h_mask(proc)[i]
        /\ notna(proc.rows[i].vendor_name_inv)
        /\ ne(proc.rows[i].vendor_name_inv, proc.rows[i].vendor_name_sap)]

\* lines 76-77: the copy, with vendor_name_updated False on every row
invoice_copy(inv) ==
    [columns |-> inv.columns \cup {"vendor_name_updated"},
     rows |-> [i \in DOMAIN inv.rows |->
                  [inv.rows[i] EXCEPT !.vendor_name_updated = FALSE]]]

\* lines 80-83: invoice_number -> vendor_name_sap of the mismatching rows,
\* after drop_duplicates() of the pairs
fix_map(proc) ==
    LET sel == select(proc.rows, mismatch_mask(proc))
    IN unique([i \in DOMAIN sel |->
                  [key |-> sel[i].invoice_number, val |-> sel[i].vendor_name_sap]])

\* lines 84-89: the copy's rows whose invoice_number is in fix_map take the
\* mapped name and vendor_name_updated True
apply_fix(copy, fm) ==
    [columns |-> copy.columns,
     rows |-> [i \in DOMAIN copy.rows |->
                  IF isin(fm, copy.rows[i].invoice_number)
                  THEN [copy.rows[i] EXCEPT
                           !.vendor_name = map_value(fm, copy.rows[i].invoice_number),
                           !.vendor_name_updated = TRUE]
                  ELSE copy.rows[i]]]

\* the corrections written to df_inv itself (no .copy())
df_inv_aliased(inv, corrected) == corrected

\* line 76: the caller's df_inv after the call; the corrections go to the copy
df_inv_after(inv, corrected) == inv

\* the call: what it raises, df_proc (mutated in place), the caller's df_inv
\* and the returned invoice copy (returned is FALSE when it raises)
validate_vendor_name(proc, inv) ==
    LET inv_name_map == set_index(inv, "invoice_number", "vendor_name")
    IN IF ~is_unique(inv_name_map)
       THEN [raised |-> "InvalidIndexError", returned |-> FALSE,
             df_proc |-> proc, df_inv |-> inv, df_inv_corrected |-> inv]
       ELSE LET p == attach_invoice_name(proc, inv_name_map)
                fm == fix_map(p)
                copy == invoice_copy(inv)
            IN IF ~is_unique(fm)
               THEN [raised |-> "InvalidIndexError", returned |-> FALSE,
                     df_proc |-> p, df_inv |-> inv, df_inv_corrected |-> inv]
               ELSE [raised |-> "none", returned |-> TRUE,
                     df_proc |-> p,
                     df_inv |-> df_inv_after(inv, apply_fix(copy, fm)),
                     df_inv_corrected |-> apply_fix(copy, fm)]

(***************************************************************************)
(* validate_vendor_bank_account                                            *)
(***************************************************************************)
\* line 107
init_mismatch(proc) ==
    [columns |-> proc.columns \cup {"bank_account_mismatch"},
     rows |-> [i \in DOMAIN proc.rows |->
                  [proc.rows[i] EXCEPT !.bank_account_mismatch = FALSE]]]

\* lines 106-112 with == in place of !=
validate_vendor_bank_account_eq(proc) ==
    LET p0 == init_mismatch(proc)
    IN IF "bank_account_sap" \in p0.columns /\ "bank_account" \in p0.columns
       THEN loc_assign(p0, h_mask(p0), "bank_account_mismatch",
                [i \in DOMAIN p0.rows |->
                    ~ne(p0.rows[i].bank_account, p0.rows[i].bank_account_sap)])
       ELSE p0

\* lines 106-112: df_proc after the call (mutated in place); never raises
validate_vendor_bank_account(proc) ==
    LET p0 == init_mismatch(proc)
    IN IF "bank_account_sap" \in p0.columns /\ "bank_account" \in p0.columns
       THEN loc_assign(p0, h_mask(p0), "bank_account_mismatch",
                [i \in DOMAIN p0.rows |->
                    ne(p0.rows[i].bank_account, p0.rows[i].bank_account_sap)])
       ELSE p0

(***************************************************************************)
(* Inputs                                                                  *)
(***************************************************************************)
ProcColumns == {"id_column", "vendor_code", "bank_account", "invoice_number"}

InvColumns == {"invoice_number", "vendor_name"}

\* a DataFrame that was never returned (df_inv_corrected before the first
\* successful validate_vendor_name)
NoFrame == [columns |-> {}, rows |-> <<>>]

\* the frames of at most n rows over a set of rows-without-index, each row
\* given its position as index label (a RangeIndex)
Frames(columns, fields, n) ==
    UNION {{[columns |-> columns,
             rows |-> [i \in 1..k |-> [idx |-> i] @@ f[i]]] : f \in [1..k -> fields]}
           : k \in 0..n}

ProcFields(types, codes, banks, invoices) ==
    [id_column : types, vendor_code : codes, bank_account : banks,
     invoice_number : invoices, vendor_name_sap : {NaN},
     bank_account_sap : {NaN}, vendor_name_inv : {NaN},
     bank_account_mismatch : {FALSE}]

InvFields(invoices, names) ==
    [invoice_number : invoices, vendor_name : names,
     vendor_name_updated : {FALSE}]

\* vendor masters: vendor_code is a unique key; a code has no row, or one row
\* with a name and (when the master has the column) a bank account
SapFrames(names, banks, has_bank) ==
    LET entry == {<<>>} \cup
                 {<<[vendor_name |-> n, bank_account |-> b]>> :
                     n \in names, b \in banks}
        row(c, e) == [i \in DOMAIN e |-> [vendor_code |-> c] @@ e[i]]
    IN {[columns |-> {"vendor_code", "vendor_name"} \cup
                     (IF has_bank THEN {"bank_account"} ELSE {}),
         rows |-> row("V1", e1) \o row("V2", e2)] : e1 \in entry, e2 \in entry}

\* inputs that exercise the vendor-code lookup and the bank comparison
CodeInputs ==
    [proc : Frames(ProcColumns,
                   ProcFields({"H", "D"}, {"V1", "V2"}, {"B1", NaN}, {"I1"}),
                   MaxProc),
     sap : SapFrames({"N1", NaN}, {"B1", "B2", NaN}, TRUE)
             \cup SapFrames({"N1", NaN}, {NaN}, FALSE),
     inv : Frames(InvColumns, InvFields({"I1"}, {"N2"}), 1)]

\* inputs that exercise the invoice lookup and the name correction
NameInputs ==
    [proc : Frames(ProcColumns,
                   ProcFields({"H"}, {"V1", "V2"}, {"B1"}, {"I1", "I2"}),
                   MaxProc),
     sap : {[columns |-> {"vendor_code", "vendor_name", "bank_account"},
             rows |-> <<[vendor_code |-> "V1", vendor_name |-> "N1",
                         bank_account |-> "B1"],
                        [vendor_code |-> "V2", vendor_name |-> "N2",
                         bank_account |-> "B2"]>>]},
     inv : Frames(InvColumns, InvFields({"I1", "I2"}, {"N1", "N3", NaN}),
                  MaxInv)]

NoCall == [call |-> "none", raised |-> "none", codes |-> <<>>]

Init ==
    \E in \in CodeInputs \cup NameInputs :
        /\ df_proc = in.proc
        /\ df_sap = in.sap
        /\ df_inv = in.inv
        /\ df_inv_corrected = NoFrame
        /\ last = NoCall

(***************************************************************************)
(* The calls.  An exception propagates to the caller and ends the run;     *)
(* validate_vendor_name and validate_vendor_bank_account take the frame    *)
(* validate_vendor_code returned.                                          *)
(***************************************************************************)
Running == last.raised = "none"

Enriched == Running /\ "vendor_name_sap" \in df_proc.columns

ValidateVendorCode ==
    /\ Running
    /\ LET r == validate_vendor_code(df_proc, df_sap)
       IN /\ df_proc' = r.df_proc
          /\ last' = [call |-> "code", raised |-> r.raised, codes |-> r.codes]
    /\ UNCHANGED <<df_sap, df_inv, df_inv_corrected>>

ValidateVendorName ==
    /\ Enriched
    /\ LET r == validate_vendor_name(df_proc, df_inv)
       IN /\ df_proc' = r.df_proc
          /\ df_inv' = r.df_inv
          /\ df_inv_corrected' = IF r.returned THEN r.df_inv_corrected
                                 ELSE df_inv_corrected
          /\ last' = [call |-> "name", raised |-> r.raised, codes |-> <<>>]
    /\ UNCHANGED df_sap

ValidateVendorBankAccount ==
    /\ Enriched
    /\ df_proc' = validate_vendor_bank_account(df_proc)
    /\ last' = [call |-> "bank", raised |-> "none", codes |-> <<>>]
    /\ UNCHANGED <<df_sap, df_inv, df_inv_corrected>>

Next ==
    \/ ValidateVendorCode
    \/ ValidateVendorName
    \/ ValidateVendorBankAccount

Spec == Init /\ [][Next]_vars

(***************************************************************************)
(* Properties                                                              *)
(***************************************************************************)
ProcIdx == DOMAIN df_proc.rows

HRows == {i \in ProcIdx : df_proc.rows[i].id_column = "H"}

SapKeys == {df_sap.rows[i].vendor_code : i \in DOMAIN df_sap.rows}

\* the H rows whose vendor_code is not a key of the vendor master
Unresolved == {i \in HRows : df_proc.rows[i].vendor_code \notin SapKeys}

\* the first unresolved H row that carries vendor code c
FirstRow(c) ==
    CHOOSE i \in Unresolved :
        /\ df_proc.rows[i].vendor_code = c
        /\ \A j \in Unresolved : df_proc.rows[j].vendor_code = c => i <= j

RowIds(frame) == [i \in DOMAIN frame.rows |-> frame.rows[i].idx]

\* validate_vendor_name has returned an invoice copy
Returned == df_inv_corrected.columns # {}

\* C1: whenever validate_vendor_code fails, the codes its error carries are
\* exactly the vendor codes of the H rows without an entry in the vendor
\* master, each once, in order of first occurrence.
C1_FailFastCompleteness ==
    (last.call = "code" /\ last.raised # "none") =>
        /\ {last.codes[k] : k \in DOMAIN last.codes}
             = {df_proc.rows[i].vendor_code : i \in Unresolved}
        /\ \A j, k \in DOMAIN last.codes :
              j < k => /\ last.codes[j] # last.codes[k]
                       /\ FirstRow(last.codes[j]) < FirstRow(last.codes[k])

\* C2: validate_vendor_code fails if and only if some H row has a vendor_code
\* that is not a key of the vendor master, and when it returns, every H row
\* has vendor_name_sap set.
C2_FailsIffUnresolved ==
    last.call = "code" =>
        /\ (last.raised # "none") <=> (Unresolved # {})
        /\ last.raised = "none" =>
              \A i \in HRows : notna(df_proc.rows[i].vendor_name_sap)

\* C3: after any sequence of successful calls, every row whose record type is
\* not H has vendor_name_sap, bank_account_sap and vendor_name_inv absent and
\* bank_account_mismatch false.
C3_HOnlyEffect ==
    Running =>
        \A i \in ProcIdx \ HRows :
            /\ isna(df_proc.rows[i].vendor_name_sap)
            /\ isna(df_proc.rows[i].bank_account_sap)
            /\ isna(df_proc.rows[i].vendor_name_inv)
            /\ df_proc.rows[i].bank_account_mismatch = FALSE

\* all three stages have run; a non-H row shares vendor code and invoice
\* number with an H row that did get a name from the invoice and a mismatch
C3_Witness ==
    /\ Running
    /\ {"vendor_name_inv", "bank_account_mismatch"} \subseteq df_proc.columns
    /\ \E i \in HRows, j \in ProcIdx \ HRows :
          /\ df_proc.rows[i].vendor_code = df_proc.rows[j].vendor_code
          /\ df_proc.rows[i].invoice_number = df_proc.rows[j].invoice_number
          /\ notna(df_proc.rows[i].vendor_name_inv)
          /\ notna(df_proc.rows[i].bank_account_sap)
          /\ df_proc.rows[i].bank_account_mismatch

\* C4: no call adds, drops, duplicates or reorders procurement rows, and the
\* invoice copy validate_vendor_name returns has the row identifiers of the
\* invoice collection in the same order.
C4_RowIdentityPreserved ==
    /\ [][RowIds(df_proc') = RowIds(df_proc)]_vars
    /\ [](Returned => RowIds(df_inv_corrected) = RowIds(df_inv))

\* validate_vendor_name returned with a correction, for two procurement rows
\* (one of them not H) that share vendor code and invoice number
C4_Witness ==
    /\ last.call = "name" /\ last.raised = "none" /\ Returned
    /\ \E i \in HRows, j \in ProcIdx \ HRows :
          /\ df_proc.rows[i].vendor_code = df_proc.rows[j].vendor_code
          /\ df_proc.rows[i].invoice_number = df_proc.rows[j].invoice_number
    /\ \E k \in DOMAIN df_inv_corrected.rows :
          df_inv_corrected.rows[k].vendor_name_updated

\* the H rows that reference invoice number n with an invoice name that is
\* present and differs from the SAP name
Mismatching(n) ==
    {i \in HRows : /\ df_proc.rows[i].invoice_number = n
                   /\ df_proc.rows[i].vendor_name_inv # NaN
                   /\ df_proc.rows[i].vendor_name_inv # df_proc.rows[i].vendor_name_sap}

\* C5: in the returned invoice copy a row has vendor_name_updated true iff its
\* invoice_number is that of an H row whose vendor_name_inv is present and
\* differs from its vendor_name_sap; such a row carries that vendor_name_sap,
\* every other row keeps its original vendor_name.
C5_CorrectionCorrectness ==
    Returned =>
        \A k \in DOMAIN df_inv_corrected.rows :
            LET r == df_inv_corrected.rows[k]
                m == Mismatching(r.invoice_number)
            IN /\ r.vendor_name_updated <=> (m # {})
               /\ \A i \in m : r.vendor_name = df_proc.rows[i].vendor_name_sap
               /\ m = {} => r.vendor_name = df_inv.rows[k].vendor_name
               /\ r.invoice_number = df_inv.rows[k].invoice_number

\* the copy holds a corrected row, an untouched row whose invoice matched no
\* mismatching H row, and an H row without usable invoice name
C5_Witness ==
    /\ Returned
    /\ \E k \in DOMAIN df_inv_corrected.rows :
          /\ df_inv_corrected.rows[k].vendor_name_updated
          /\ df_inv_corrected.rows[k].vendor_name # df_inv.rows[k].vendor_name
    /\ \E k \in DOMAIN df_inv_corrected.rows :
          ~df_inv_corrected.rows[k].vendor_name_updated
    /\ \E i \in HRows : isna(df_proc.rows[i].vendor_name_inv)

BankColumns == {"bank_account", "bank_account_sap", "bank_account_mismatch"}

\* C6 as stated: for every H row bank_account_mismatch equals
\* (bank_account != bank_account_sap) under exact value equality, two nulls
\* being equal (no mismatch).
C6_ExactEquality ==
    BankColumns \subseteq df_proc.columns =>
        \A i \in HRows :
            df_proc.rows[i].bank_account_mismatch
                <=> (df_proc.rows[i].bank_account # df_proc.rows[i].bank_account_sap)

\* C6 amended: for every H row bank_account_mismatch is true when either
\* value is null (also when both are) and otherwise equals
\* (bank_account != bank_account_sap).
C6_NullIsMismatch ==
    BankColumns \subseteq df_proc.columns =>
        \A i \in HRows :
            df_proc.rows[i].bank_account_mismatch
                <=> \/ df_proc.rows[i].bank_account = NaN
                    \/ df_proc.rows[i].bank_account_sap = NaN
                    \/ df_proc.rows[i].bank_account # df_proc.rows[i].bank_account_sap

\* validate_vendor_bank_account flagged an H row whose two values are null,
\* and left unflagged an H row whose two values are equal
C6_Witness ==
    /\ BankColumns \subseteq df_proc.columns
    /\ \E i \in HRows :
          /\ df_proc.rows[i].bank_account = NaN
          /\ df_proc.rows[i].bank_account_sap = NaN
          /\ df_proc.rows[i].bank_account_mismatch
    /\ \E i \in HRows :
          /\ df_proc.rows[i].bank_account # NaN
          /\ ~df_proc.rows[i].bank_account_mismatch

\* C7: no call changes the vendor master or the invoice collection it was
\* passed; corrections and vendor_name_updated exist only in the returned copy.
C7_ReferenceInputsUnchanged ==
    [][df_sap' = df_sap /\ df_inv' = df_inv]_vars

\* a corrected copy was returned while df_inv has no vendor_name_updated column
C7_Witness ==
    /\ Returned
    /\ "vendor_name_updated" \notin df_inv.columns
    /\ \E k \in DOMAIN df_inv_corrected.rows :
          /\ df_inv_corrected.rows[k].vendor_name_updated
          /\ df_inv_corrected.rows[k].vendor_name # df_inv.rows[k].vendor_name

\* C8: validate_vendor_name and validate_vendor_bank_account never raise.
C8_NoFailurePath ==
    last.call \in {"name", "bank"} => last.raised = "none"

\* C9: validate_vendor_code called again on its own output with the same
\* master succeeds and leaves vendor_name_sap and bank_account_sap of every
\* row as they were.
C9_EnrichmentIdempotent ==
    [][(Enriched /\ last'.call = "code") =>
          /\ last'.raised = "none"
          /\ \A i \in ProcIdx :
                /\ df_proc'.rows[i].vendor_name_sap = df_proc.rows[i].vendor_name_sap
                /\ df_proc'.rows[i].bank_account_sap = df_proc.rows[i].bank_account_sap
          /\ df_proc'.columns = df_proc.columns]_vars

\* validate_vendor_code has just been re-run on a frame the other two stages
\* had already extended, with an enriched H row and a non-H row
C9_Witness ==
    /\ last.call = "code" /\ last.raised = "none"
    /\ {"vendor_name_inv", "bank_account_mismatch"} \subseteq df_proc.columns
    /\ \E i \in HRows : notna(df_proc.rows[i].bank_account_sap)
    /\ ProcIdx \ HRows # {}

\* the procurement columns validate_vendor_name must leave alone
KeptByName(row) ==
    <<row.idx, row.id_column, row.vendor_code, row.bank_account,
      row.invoice_number, row.vendor_name_sap, row.bank_account_sap,
      row.bank_account_mismatch>>

\* C10: on any output of validate_vendor_code the two later stages commute
\* (same procurement frame whichever runs first), and validate_vendor_name
\* changes no procurement column other than vendor_name_inv.
C10_StagesCommute ==
    /\ [](Enriched =>
            LET n == validate_vendor_name(df_proc, df_inv)
                b == validate_vendor_bank_account(df_proc)
            IN n.raised = "none" =>
                  validate_vendor_bank_account(n.df_proc)
                      = validate_vendor_name(b, df_inv).df_proc)
    /\ [][last'.call = "name" =>
            /\ df_proc'.columns \ {"vendor_name_inv"}
                 = df_proc.columns \ {"vendor_name_inv"}
            /\ \A i \in ProcIdx :
                  KeptByName(df_proc'.rows[i]) = KeptByName(df_proc.rows[i])]_vars

\* validate_vendor_bank_account ran after validate_vendor_name on a frame
\* with an H row that has both an invoice name and a bank mismatch
C10_Witness ==
    /\ last.call = "bank"
    /\ "vendor_name_inv" \in df_proc.columns
    /\ \E i \in HRows :
          /\ notna(df_proc.rows[i].vendor_name_inv)
          /\ df_proc.rows[i].bank_account_mismatch
    /\ \E i \in HRows : ~df_proc.rows[i].bank_account_mismatch

====
